---- MODULE Spec2Model ----
(***************************************************************************)
(* Extension Security Analyzer (extension_scanner/background.js).          *)
(*                                                                         *)
(* Two specifications over one state:                                      *)
(*   SpecScore  the scoring pipeline correlateRisk (layers 2-5) applied to *)
(*              one extension, one stored observation record and one       *)
(*              answer of the remote Analyzer API;                         *)
(*   Spec       the service worker's event handlers (startup, install,     *)
(*              enable, periodic check) running against a browser whose    *)
(*              user installs, removes, enables, disables and lists        *)
(*              extensions while the handlers are suspended at an await.   *)
(***************************************************************************)
EXTENDS Integers, FiniteSets, Sequences, TLC

(***************************************************************************)
(* Bounds of the model.                                                    *)
(***************************************************************************)
\* permissions of an extension that the rule table does not name
MaxExtraPermissions == 10

\* the same, for the manifests analyzeManifestStatic is applied to on its own
MaxManifestExtra == 27

\* ------------------------------------------------------------------------
\* Input domains of the scoring pipeline
\* ------------------------------------------------------------------------

\* permissions analyzeManifestStatic looks for by name
RulePermissions == {"webRequestBlocking", "debugger", "proxy", "cookies", "webRequest"}

\* host permission patterns an extension may declare
HostPatterns == {"<all_urls>"}

InstallTypes == {"normal", "sideload", "development"}

\* a domain is the sequence of its labels: api.example.com, evil.tk, cdn.xyz
FetchDomainChoices == {<<"api", "example", "com">>, <<"evil", "tk">>}
XhrDomainChoices == {<<"cdn", "xyz">>}

Frequencies == {"low", "medium", "high"}

\* the extensions the pipeline is applied to; extraPermissions counts the
\* entries of ext.permissions that are not in RulePermissions
Extensions ==
  [ permissions : SUBSET RulePermissions,
    extraPermissions : {0, MaxExtraPermissions},
    hostPermissions : SUBSET HostPatterns,
    installType : InstallTypes ]

\* host patterns of the manifests analysed on their own: two universal
\* patterns and one that names a host
ManifestHostPatterns == {"<all_urls>", "*://*/*", "https://example.com/*"}

ManifestExtensions ==
  [ permissions : SUBSET RulePermissions,
    extraPermissions : 0..MaxManifestExtra,
    hostPermissions : SUBSET ManifestHostPatterns,
    installType : InstallTypes ]

\* what the content script stores under runtime_obs_{id}
ObservationRecords ==
  [ dom_injection : BOOLEAN,
    form_hijacking : BOOLEAN,
    keystroke_capture : BOOLEAN,
    external_post : BOOLEAN,
    fetch_domains : SUBSET FetchDomainChoices,
    xhr_domains : SUBSET XhrDomainChoices,
    frequency : Frequencies ]

\* storage holds a record under runtime_obs_{id}, or nothing
NoObservations == [missing |-> TRUE]
StoredObservations == ObservationRecords \cup {NoObservations}

\* ------------------------------------------------------------------------
\* Helpers
\* ------------------------------------------------------------------------
Min(a, b) == IF a <= b THEN a ELSE b

\* the value of a field that may be missing from a stored object: x.f || dflt
FieldOr(rec, f, dflt) == IF f \in DOMAIN rec THEN rec[f] ELSE dflt

\* ------------------------------------------------------------------------
\* Layer 1: discovery metadata
\* ------------------------------------------------------------------------
isSideloaded(ext) == ext.installType = "sideload" \/ ext.installType = "development"

isUnpacked(ext) == ext.installType = "development"

\* ext.permissions.length and ext.permissions.includes(p)
permissionsLength(ext) == Cardinality(ext.permissions) + ext.extraPermissions

\* ------------------------------------------------------------------------
\* Layer 2: analyzeManifestStatic
\* ------------------------------------------------------------------------
UniversalPatterns == {"<all_urls>", "*://*/*", "http://*/*", "https://*/*"}

hasUniversalAccessOf(ext) == \E perm \in ext.hostPermissions : perm \in UniversalPatterns

\* the excess points without their cap of 15
excessScore_uncapped(permissionCount) ==
  IF permissionCount > 10 THEN ((permissionCount - 10) \div 5) * 5 ELSE 0

excessScore(permissionCount) ==
  IF permissionCount > 10
    THEN Min(((permissionCount - 10) \div 5) * 5, 15)
    ELSE 0

\* the tier analyzeManifestStatic derives from its own (uncapped) points
manifestRiskLevel(score) ==
  IF score >= 81 THEN "CRITICAL"
  ELSE IF score >= 61 THEN "HIGH"
  ELSE IF score >= 31 THEN "MEDIUM"
  ELSE "LOW"

\* the rule points without the two combination bonuses
manifestPoints_noCombination(ext) ==
    (IF "webRequestBlocking" \in ext.permissions THEN 30 ELSE 0)
  + (IF "debugger" \in ext.permissions THEN 40 ELSE 0)
  + (IF "proxy" \in ext.permissions THEN 25 ELSE 0)
  + (IF "cookies" \in ext.permissions THEN 15 ELSE 0)
  + (IF hasUniversalAccessOf(ext) THEN 25 ELSE 0)
  + (IF isSideloaded(ext) \/ isUnpacked(ext) THEN 10 ELSE 0)
  + excessScore(permissionsLength(ext) + Cardinality(ext.hostPermissions))

manifestPoints(ext) ==
  LET universal == hasUniversalAccessOf(ext)
      count == permissionsLength(ext) + Cardinality(ext.hostPermissions)
  IN  (IF "webRequestBlocking" \in ext.permissions THEN 30 ELSE 0)
    + (IF "debugger" \in ext.permissions THEN 40 ELSE 0)
    + (IF "proxy" \in ext.permissions THEN 25 ELSE 0)
    + (IF "cookies" \in ext.permissions THEN 15 ELSE 0)
    + (IF universal THEN 25 ELSE 0)
    + (IF isSideloaded(ext) \/ isUnpacked(ext) THEN 10 ELSE 0)
    + excessScore(count)
    + (IF "cookies" \in ext.permissions /\ universal THEN 10 ELSE 0)
    + (IF "webRequest" \in ext.permissions /\ universal THEN 10 ELSE 0)

manifestFlags(ext) ==
  LET universal == hasUniversalAccessOf(ext)
      count == permissionsLength(ext) + Cardinality(ext.hostPermissions)
  IN  (IF "webRequestBlocking" \in ext.permissions
         THEN {"DANGEROUS_PERMISSION_WEBREQUESTBLOCKING"} ELSE {})
 \cup (IF "debugger" \in ext.permissions THEN {"CRITICAL_PERMISSION_DEBUGGER"} ELSE {})
 \cup (IF "proxy" \in ext.permissions THEN {"DANGEROUS_PERMISSION_PROXY"} ELSE {})
 \cup (IF "cookies" \in ext.permissions THEN {"COOKIE_ACCESS"} ELSE {})
 \cup (IF universal THEN {"UNIVERSAL_HOST_ACCESS"} ELSE {})
 \cup (IF isSideloaded(ext) \/ isUnpacked(ext) THEN {"UNVERIFIED_SOURCE"} ELSE {})
 \cup (IF count > 10 THEN {"EXCESSIVE_PERMISSIONS"} ELSE {})
 \cup (IF "cookies" \in ext.permissions /\ universal THEN {"COOKIE_THEFT_RISK"} ELSE {})
 \cup (IF "webRequest" \in ext.permissions /\ universal
         THEN {"DATA_EXFILTRATION_RISK"} ELSE {})

analyzeManifestStatic(ext) ==
  [ riskScore |-> Min(manifestPoints(ext), 100),
    riskLevel |-> manifestRiskLevel(manifestPoints(ext)),
    flags |-> manifestFlags(ext),
    permissionCount |-> permissionsLength(ext) + Cardinality(ext.hostPermissions),
    hasUniversalAccess |-> hasUniversalAccessOf(ext) ]

\* ------------------------------------------------------------------------
\* Layer 3: getRuntimeObservations
\* ------------------------------------------------------------------------
\* a default that reports input monitoring
DefaultObservations_keystroke ==
  [ dom_injection |-> FALSE,
    keystroke_capture |-> TRUE,
    external_post |-> FALSE,
    fetch_domains |-> {},
    xhr_domains |-> {},
    frequency |-> "low" ]

\* the object used when nothing is stored; it has no form_hijacking field
DefaultObservations ==
  [ dom_injection |-> FALSE,
    keystroke_capture |-> FALSE,
    external_post |-> FALSE,
    fetch_domains |-> {},
    xhr_domains |-> {},
    frequency |-> "low" ]

getRuntimeObservations(stored) ==
  IF stored = NoObservations THEN DefaultObservations ELSE stored

\* the catch block of getRuntimeObservations: storage.local.get rejected
getRuntimeObservationsFailed == DefaultObservations

\* ------------------------------------------------------------------------
\* Layer 4: normalizeBehavior, calculateRuntimeScore
\* ------------------------------------------------------------------------
SuspiciousTLDs == {"tk", "ml", "ga", "cf", "xyz", "top"}

\* domain.endsWith('.' + tld): the last label, with a label before it
isSuspiciousDomain(domain) == Len(domain) >= 2 /\ domain[Len(domain)] \in SuspiciousTLDs

\* [...fetch_domains, ...xhr_domains].filter(...): one entry per list position
suspiciousDomainsOf(observations) ==
  {<<"fetch", d>> : d \in {x \in observations.fetch_domains : isSuspiciousDomain(x)}}
  \cup {<<"xhr", d>> : d \in {x \in observations.xhr_domains : isSuspiciousDomain(x)}}

\* data exfiltration only when a destination is classified suspicious
dataExfiltrationOf_suspiciousOnly(observations) ==
  suspiciousDomainsOf(observations) # {}

\* behaviorVector.data_exfiltration
dataExfiltrationOf(observations) ==
  \/ FieldOr(observations, "external_post", FALSE)
  \/ observations.fetch_domains # {}
  \/ observations.xhr_domains # {}

normalizeBehavior(observations) ==
  [ dom_injection |-> FieldOr(observations, "dom_injection", FALSE),
    form_hijacking |-> FieldOr(observations, "form_hijacking", FALSE),
    keystroke_capture |-> FieldOr(observations, "keystroke_capture", FALSE),
    external_post |-> FieldOr(observations, "external_post", FALSE),
    fetch_domains |-> observations.fetch_domains,
    xhr_domains |-> observations.xhr_domains,
    frequency |-> observations.frequency,
    suspicious_domains |-> suspiciousDomainsOf(observations),
    data_exfiltration |-> dataExfiltrationOf(observations) ]

runtimePoints(behaviorVector, staticAnalysis) ==
    (IF behaviorVector.form_hijacking THEN 50 ELSE 0)
  + (IF behaviorVector.dom_injection /\ ~behaviorVector.form_hijacking THEN 20 ELSE 0)
  + (IF behaviorVector.keystroke_capture THEN 25 ELSE 0)
  + (IF behaviorVector.external_post THEN 30 ELSE 0)
  + (IF behaviorVector.suspicious_domains # {}
       THEN Min(Cardinality(behaviorVector.suspicious_domains) * 15, 30) ELSE 0)
  + (IF behaviorVector.data_exfiltration /\ behaviorVector.frequency = "high" THEN 10 ELSE 0)
  + (IF behaviorVector.keystroke_capture /\ ~staticAnalysis.hasUniversalAccess THEN 5 ELSE 0)
  + (IF behaviorVector.form_hijacking /\ behaviorVector.external_post THEN 20 ELSE 0)

calculateRuntimeScore(behaviorVector, staticAnalysis) ==
  Min(runtimePoints(behaviorVector, staticAnalysis), 100)

\* ------------------------------------------------------------------------
\* Layer 5: analyzeWithAnalyzerAPI, correlateRisk
\* ------------------------------------------------------------------------
\* risk scores the remote Analyzer returns for a manifest (score 0-100)
ApiScores == {0, 10, 37, 90, 100}

\* what analyzeWithAnalyzerAPI returns: success false after any failure, or
\* the manifest analysis of the remote Analyzer
ApiFailure == [success |-> FALSE]

ApiOutcomes ==
  {ApiFailure} \cup [success : {TRUE}, risk_score : ApiScores, universal_access : BOOLEAN]

\* what comes back from the fetch of /api/analyze-manifest: a network error,
\* a status that is not OK, a body that is not JSON, a body with success
\* false or without data, or an analysis
FailedResponses ==
  { [kind |-> k] : k \in {"network-error", "not-ok", "not-json", "unsuccessful", "no-data"} }

AnalysisResponses ==
  [kind : {"analysis"}, risk_score : ApiScores, universal_access : BOOLEAN]

ApiResponses == FailedResponses \cup AnalysisResponses

\* analyzeWithAnalyzerAPI: every failure is thrown and caught
analyzeWithAnalyzerAPI(response) ==
  IF response.kind = "analysis"
    THEN [ success |-> TRUE, risk_score |-> response.risk_score,
           universal_access |-> response.universal_access ]
    ELSE ApiFailure

\* a correlateRisk that takes a score of 0 when the remote Analyzer fails
staticAnalysisOf_noFallback(ext, apiResult) ==
  [ riskScore |-> IF apiResult.success THEN apiResult.risk_score ELSE 0,
    flags |-> {},
    permissionCount |-> permissionsLength(ext) + Cardinality(ext.hostPermissions),
    hasUniversalAccess |-> apiResult.success /\ apiResult.universal_access ]

\* the static analysis correlateRisk goes on with (the API's risk_level is
\* only logged and its flags are not modelled)
staticAnalysisOf(ext, apiResult) ==
  IF apiResult.success
    THEN [ riskScore |-> apiResult.risk_score,
           flags |-> {},
           permissionCount |-> permissionsLength(ext) + Cardinality(ext.hostPermissions),
           hasUniversalAccess |-> apiResult.universal_access ]
    ELSE analyzeManifestStatic(ext)

\* Math.round(a * 0.3 + b * 0.7) and Math.round(a * 0.6 + b * 0.4) on IEEE
\* doubles, for integers a in 0..100 and b a multiple of 5 in 0..100. The
\* double sum is the exact one except for 0*0.3 + 85*0.7 and 10*0.3 + 85*0.7,
\* which fall just below 59.5 and 62.5 and so round down.
DoubleBelowHalf == {<<0, 85>>, <<10, 85>>}

\* mutant: the weights of the README (static 70%, runtime 30%)
blendScore_readmeWeights(staticScore, runtimeScore, formHijacking) ==
  (7 * staticScore + 3 * runtimeScore + 5) \div 10

\* mutant: the form-hijacking branch left out
blendScore_noOverride(staticScore, runtimeScore, formHijacking) ==
  (6 * staticScore + 4 * runtimeScore + 5) \div 10

blendScore(staticScore, runtimeScore, formHijacking) ==
  IF formHijacking
    THEN IF <<staticScore, runtimeScore>> \in DoubleBelowHalf
           THEN (3 * staticScore + 7 * runtimeScore) \div 10
           ELSE (3 * staticScore + 7 * runtimeScore + 5) \div 10
    ELSE (6 * staticScore + 4 * runtimeScore + 5) \div 10

installSourceBonusOf(ext) == IF isSideloaded(ext) \/ isUnpacked(ext) THEN 5 ELSE 0

\* mutant: the final score is not clamped
finalRiskScoreOf_noClamp(finalScore, installSourceBonus) == finalScore + installSourceBonus

finalRiskScoreOf(finalScore, installSourceBonus) == Min(finalScore + installSourceBonus, 100)

\* mutant: the tiers start one point late (> instead of >=)
finalRiskLevelOf_strict(finalRiskScore) ==
  IF finalRiskScore > 81 THEN "CRITICAL"
  ELSE IF finalRiskScore > 61 THEN "HIGH"
  ELSE IF finalRiskScore > 31 THEN "MEDIUM"
  ELSE "LOW"

finalRiskLevelOf(finalRiskScore) ==
  IF finalRiskScore >= 81 THEN "CRITICAL"
  ELSE IF finalRiskScore >= 61 THEN "HIGH"
  ELSE IF finalRiskScore >= 31 THEN "MEDIUM"
  ELSE "LOW"

correlateRisk(ext, apiResult, stored) ==
  LET staticAnalysis == staticAnalysisOf(ext, apiResult)
      behaviorVector == normalizeBehavior(getRuntimeObservations(stored))
      runtimeScore == calculateRuntimeScore(behaviorVector, staticAnalysis)
      finalScore == blendScore(staticAnalysis.riskScore, runtimeScore,
                               behaviorVector.form_hijacking)
      finalRiskScore == finalRiskScoreOf(finalScore, installSourceBonusOf(ext))
  IN  [ riskScore |-> finalRiskScore,
        riskLevel |-> finalRiskLevelOf(finalRiskScore),
        breakdown |-> [ staticScore |-> staticAnalysis.riskScore,
                        runtimeScore |-> runtimeScore,
                        installSourceBonus |-> installSourceBonusOf(ext),
                        usingAnalyzerAPI |-> apiResult.success ],
        flags |-> staticAnalysis.flags,
        behaviorVector |-> behaviorVector,
        permissionCount |-> staticAnalysis.permissionCount ]

\* ------------------------------------------------------------------------
\* The Correlation Engine of the Analyzer (attack chains)
\* ------------------------------------------------------------------------
\* the width of the time window in seconds
CorrelationWindow == 30

\* events of one timeline
MaxTimeline == 3

EventKinds == {"KEYLOGGING", "DATA_EXFILTRATION", "COOKIE_ACCESS", "TOKEN_ACCESS", "TOKEN_THEFT"}

\* timestamps in seconds: two inside one window, one beyond it
EventTimes == {0, 5, 40}

AttackChainEvents == [kind : EventKinds, timestamp : EventTimes]

\* the catalogue of chain templates, each with its fixed riskBoost
ChainTemplates ==
  { [name |-> "Credential Harvesting", steps |-> <<"KEYLOGGING", "DATA_EXFILTRATION">>,
     riskBoost |-> 20],
    [name |-> "Session Theft", steps |-> <<"COOKIE_ACCESS", "DATA_EXFILTRATION">>,
     riskBoost |-> 15],
    [name |-> "Token Theft Chain",
     steps |-> <<"TOKEN_ACCESS", "TOKEN_THEFT", "DATA_EXFILTRATION">>, riskBoost |-> 25] }

\* the timelines handed to the engine: ordered by timestamp
Timelines ==
  { t \in UNION {[1..n -> AttackChainEvents] : n \in 0..MaxTimeline} :
      \A i \in 1..Len(t) - 1 : t[i].timestamp <= t[i + 1].timestamp }

\* the matcher over one window that ignores the window's end
matchedSteps_noWindow(events, steps, k, i, deadline) ==
  LET RECURSIVE scan(_, _)
      scan(kk, ii) ==
        IF kk > Len(steps) \/ ii > Len(events) THEN kk - 1
        ELSE IF events[ii].kind = steps[kk] THEN scan(kk + 1, ii + 1)
        ELSE scan(kk, ii + 1)
  IN  scan(k, i)

\* the sequence matcher over one window: the number of steps matched, in
\* order, by the events from index i on whose timestamp is not after the
\* deadline, the steps before k being matched already
matchedSteps(events, steps, k, i, deadline) ==
  LET RECURSIVE scan(_, _)
      scan(kk, ii) ==
        IF kk > Len(steps) \/ ii > Len(events) THEN kk - 1
        ELSE IF events[ii].timestamp > deadline THEN kk - 1
        ELSE IF events[ii].kind = steps[kk] THEN scan(kk + 1, ii + 1)
        ELSE scan(kk, ii + 1)
  IN  scan(k, i)

\* the window slides over the timeline: the starts at which the whole
\* template is matched
matchingStarts(events, template) ==
  { i \in 1..Len(events) :
      /\ events[i].kind = template.steps[1]
      /\ matchedSteps(events, template.steps, 2, i + 1,
                      events[i].timestamp + CorrelationWindow) = Len(template.steps) }

\* confidence in percent: matched steps / template length
confidenceOf(matched, template) == (100 * matched) \div Len(template.steps)

\* the chains emitted for a timeline, one for every template matched
correlate(events) ==
  { [ name |-> template.name,
      steps |-> template.steps,
      confidence |-> confidenceOf(Len(template.steps), template),
      riskBoost |-> template.riskBoost ] :
    template \in { c \in ChainTemplates : matchingStarts(events, c) # {} } }

\* ------------------------------------------------------------------------
\* State
\* ------------------------------------------------------------------------
VARIABLES
  \* one analysis (SpecScore)
  extension,      \* the extension metadata handed to correlateRisk
  runtimeObs,     \* storage entry runtime_obs_{id} of that extension
  apiResult,      \* what analyzeWithAnalyzerAPI returned in this analysis
  report,         \* the report correlateRisk returned, or NoReport
  \* the browser (Spec)
  installed,      \* ids chrome.management.getAll() returns, the analyzer excluded
  enabled,        \* the installed extensions that are enabled
  \* chrome.storage.local (Spec)
  blacklist,      \* ids with a blacklist_{id} key
  whitelist,      \* ids with a whitelist_{id} key
  autoScan,       \* the autoScan setting: "unset", "true" or "false"
  scanResult,     \* ids with a scan_result_{id} entry
  newExtension,   \* ids with a new_extension_{id} entry
  lastScan,       \* the lastScan entry (StoredLastScan where its content is left out), or NoLastScan
  \* the service worker (Spec)
  lastExtensionCount,   \* the module variable of the periodic check
  mgmt,           \* the management.onInstalled / onEnabled handler in flight
  startup,        \* the runtime.onStartup handler
  periodic,       \* checkForNewExtensions
  \* runtime observation (SpecObserver, SpecIngest)
  page,           \* the content script of one page
  ingest,         \* the handleRuntimeObservations calls in flight
  obsStore,       \* id -> what is stored under runtime_obs_{id}
  hostPerms,      \* id -> host permissions of the extension
  \* the Correlation Engine of the Analyzer (SpecCorrelation)
  timeline,       \* the AttackChainEvents of one analysis, ordered by timestamp
  correlationReport,  \* the correlation report made for the timeline, if any
  \* scanAllExtensions step by step (SpecScan)
  scan,           \* the scanAllExtensions call in flight and what it returned
  \* the popup (SpecImport)
  importData,     \* the parsed file of the import the user confirmed, if any
  view            \* the popup's list of unscanned extensions and its filters

scoreVars == <<extension, runtimeObs, apiResult, report>>

browserVars == <<installed, enabled>>

storageVars == <<blacklist, whitelist, autoScan, scanResult, newExtension, lastScan>>

workerVars == <<lastExtensionCount, mgmt, startup, periodic>>

pageVars == <<page, ingest, obsStore, hostPerms>>

engineVars == <<timeline, correlationReport>>

otherVars == <<engineVars, scan, importData, view>>

vars == <<scoreVars, browserVars, storageVars, workerVars, pageVars, otherVars>>

NoReport == [missing |-> TRUE]

NoApiCall == [missing |-> TRUE]

NoExtension == [missing |-> TRUE]

hasReport == report # NoReport

\* ------------------------------------------------------------------------
\* The browser, the storage and the service worker
\* ------------------------------------------------------------------------
\* extensions other than the analyzer that the user may install
MaxExtensions == 2

ExtensionIds == 1..MaxExtensions

NoLastScan == [missing |-> TRUE]

\* a lastScan entry whose content is left out
StoredLastScan == [stored |-> TRUE]

\* no run of the handler is in flight
IdleHandler == [pc |-> "idle"]

\* userExtensions of discoverExtensions, checkForNewExtensions and
\* initializePeriodicCheck: type extension, not the analyzer, not an app
userExtensions == installed


\* no page is observed and nothing is stored under runtime_obs_{id}
NoPage == [pc |-> "none"]

NoCorrelationReport == [missing |-> TRUE]

NoTimeline == <<>>

IdleScan == [pc |-> "idle"]

NoImport == [missing |-> TRUE]

NoView == [pc |-> "closed"]

InitOther ==
  /\ scan = IdleScan
  /\ importData = NoImport
  /\ view = NoView
  /\ timeline = NoTimeline
  /\ correlationReport = NoCorrelationReport

InitNoPage ==
  /\ InitOther
  /\ page = NoPage
  /\ ingest = {}
  /\ obsStore = [e \in ExtensionIds |-> NoObservations]
  /\ hostPerms = [e \in ExtensionIds |-> {}]

\* the state the event handlers start from: the service worker is loaded and
\* initializePeriodicCheck has counted the extensions already installed
InitWorker ==
  /\ installed \in SUBSET ExtensionIds
  /\ enabled \in SUBSET installed
  /\ blacklist = {}
  /\ whitelist = {}
  /\ autoScan = "unset"
  /\ scanResult = {}
  /\ newExtension = {}
  /\ lastScan = NoLastScan
  /\ lastExtensionCount = Cardinality(userExtensions)
  /\ mgmt = IdleHandler
  /\ startup = IdleHandler
  /\ periodic = IdleHandler
  /\ InitNoPage

InitScore ==
  /\ extension \in Extensions
  /\ runtimeObs \in StoredObservations
  /\ apiResult = NoApiCall
  /\ report = NoReport
  /\ installed = {}
  /\ enabled = {}
  /\ blacklist = {}
  /\ whitelist = {}
  /\ autoScan = "unset"
  /\ scanResult = {}
  /\ newExtension = {}
  /\ lastScan = NoLastScan
  /\ lastExtensionCount = 0
  /\ mgmt = IdleHandler
  /\ startup = IdleHandler
  /\ periodic = IdleHandler
  /\ InitNoPage

\* correlateRisk(extension) when the remote Analyzer answers
AnalyzeWithApi ==
  /\ report = NoReport
  /\ \E response \in AnalysisResponses :
       /\ apiResult' = analyzeWithAnalyzerAPI(response)
       /\ report' = correlateRisk(extension, analyzeWithAnalyzerAPI(response), runtimeObs)
  /\ UNCHANGED <<pageVars, otherVars, extension, runtimeObs, browserVars, storageVars, workerVars>>

\* correlateRisk(extension) when the call fails: the local fallback
AnalyzeLocal ==
  /\ report = NoReport
  /\ \E response \in FailedResponses :
       /\ apiResult' = analyzeWithAnalyzerAPI(response)
       /\ report' = correlateRisk(extension, analyzeWithAnalyzerAPI(response), runtimeObs)
  /\ UNCHANGED <<pageVars, otherVars, extension, runtimeObs, browserVars, storageVars, workerVars>>

NextScore == AnalyzeWithApi \/ AnalyzeLocal

SpecScore == InitScore /\ [][NextScore]_vars

\* ------------------------------------------------------------------------
\* analyzeManifestStatic on its own
\* ------------------------------------------------------------------------
InitManifest ==
  /\ extension \in ManifestExtensions
  /\ runtimeObs = NoObservations
  /\ apiResult = NoApiCall
  /\ report = NoReport
  /\ installed = {}
  /\ enabled = {}
  /\ blacklist = {}
  /\ whitelist = {}
  /\ autoScan = "unset"
  /\ scanResult = {}
  /\ newExtension = {}
  /\ lastScan = NoLastScan
  /\ lastExtensionCount = 0
  /\ mgmt = IdleHandler
  /\ startup = IdleHandler
  /\ periodic = IdleHandler
  /\ InitNoPage

\* analyzeManifestStatic(extension) returns
AnalyzeManifest ==
  /\ report = NoReport
  /\ report' = analyzeManifestStatic(extension)
  /\ UNCHANGED <<pageVars, otherVars, extension, runtimeObs, apiResult, browserVars, storageVars, workerVars>>

NextManifest == AnalyzeManifest

SpecManifest == InitManifest /\ [][NextManifest]_vars

\* ------------------------------------------------------------------------
\* The Correlation Engine on one timeline
\* ------------------------------------------------------------------------
InitCorrelation ==
  /\ extension = NoExtension
  /\ runtimeObs = NoObservations
  /\ apiResult = NoApiCall
  /\ report = NoReport
  /\ installed = {}
  /\ enabled = {}
  /\ blacklist = {}
  /\ whitelist = {}
  /\ autoScan = "unset"
  /\ scanResult = {}
  /\ newExtension = {}
  /\ lastScan = NoLastScan
  /\ lastExtensionCount = 0
  /\ mgmt = IdleHandler
  /\ startup = IdleHandler
  /\ periodic = IdleHandler
  /\ page = NoPage
  /\ ingest = {}
  /\ obsStore = [e \in ExtensionIds |-> NoObservations]
  /\ hostPerms = [e \in ExtensionIds |-> {}]
  /\ scan = IdleScan
  /\ importData = NoImport
  /\ view = NoView
  /\ timeline \in Timelines
  /\ correlationReport = NoCorrelationReport

\* the engine runs over the timeline of the analysis
Correlate ==
  /\ correlationReport = NoCorrelationReport
  /\ correlationReport' = [attack_chains |-> correlate(timeline)]
  /\ UNCHANGED <<scoreVars, browserVars, storageVars, workerVars, pageVars, timeline, scan, importData,
                 view>>

NextCorrelation == Correlate

SpecCorrelation == InitCorrelation /\ [][NextCorrelation]_vars

\* ------------------------------------------------------------------------
\* The content script (runtime observation of one page)
\* ------------------------------------------------------------------------
\* OBSERVATION_WINDOW, the period of the save interval and CHECK_INTERVAL,
\* in seconds
ObservationWindow == 30
SaveInterval == 5
CheckInterval == 1

\* seconds the page is followed for after the script started
MaxSeconds == 32

\* requests to other origins the page makes
MaxRequests == 3

\* the hosts of other origins the page's requests go to
ExternalDomains == {<<"evil", "tk">>, <<"api", "example", "com">>}

HttpMethods == {"GET", "POST"}

NoMessage == [missing |-> TRUE]

\* the observations object and the other variables of the script at its
\* start; now is Date.now() - observations.startTime in seconds, injected
\* tells that the DOM holds a foreign script or iframe, requests and
\* postSeen record what the page did, sent is the message the last step
\* handed to chrome.runtime.sendMessage
StartedPage ==
  [ pc |-> "observing",
    now |-> 0,
    observations |-> [ dom_injection |-> FALSE, form_hijacking |-> FALSE,
                       keystroke_capture |-> FALSE, external_post |-> FALSE,
                       fetch_domains |-> <<>>, xhr_domains |-> <<>>,
                       frequency |-> "low" ],
    seenDomains |-> {},
    checking |-> TRUE,
    saving |-> TRUE,
    injected |-> FALSE,
    requests |-> 0,
    postSeen |-> FALSE,
    finalSent |-> FALSE,
    sent |-> NoMessage ]

InitObserver ==
  /\ extension = NoExtension
  /\ runtimeObs = NoObservations
  /\ apiResult = NoApiCall
  /\ report = NoReport
  /\ installed = {}
  /\ enabled = {}
  /\ blacklist = {}
  /\ whitelist = {}
  /\ autoScan = "unset"
  /\ scanResult = {}
  /\ newExtension = {}
  /\ lastScan = NoLastScan
  /\ lastExtensionCount = 0
  /\ mgmt = IdleHandler
  /\ startup = IdleHandler
  /\ periodic = IdleHandler
  /\ InitOther
  /\ page = StartedPage
  /\ ingest = {}
  /\ obsStore = [e \in ExtensionIds |-> NoObservations]
  /\ hostPerms = [e \in ExtensionIds |-> {}]

\* detectDOMInjection: a foreign script or iframe in the DOM sets the flag
detectDOMInjection(obs, injected) ==
  IF injected THEN [obs EXCEPT !.dom_injection = TRUE] ELSE obs

\* calculateFrequency: totalRequests is the length of the two domain lists;
\* requestsPerSecond > 1 is high, > 0.5 is medium
calculateFrequency(obs, now) ==
  LET totalRequests == Len(obs.fetch_domains) + Len(obs.xhr_domains)
  IN  IF now > 0
        THEN [obs EXCEPT !.frequency = IF totalRequests > now THEN "high"
                                       ELSE IF 2 * totalRequests > now THEN "medium"
                                       ELSE "low"]
        ELSE obs

\* a save that sends nothing while nothing has been observed
saveObservations_skipEmpty(p) ==
  LET obs == calculateFrequency(p.observations, p.now)
  IN  IF \/ obs.dom_injection \/ obs.form_hijacking \/ obs.keystroke_capture
         \/ obs.external_post \/ obs.fetch_domains # <<>> \/ obs.xhr_domains # <<>>
        THEN [ observations |-> obs, elapsed |-> p.now, requests |-> p.requests ]
        ELSE NoMessage

\* saveObservations: the message handed to chrome.runtime.sendMessage (with
\* the time elapsed and the requests made so far, for reference)
saveObservations(p) ==
  [ observations |-> calculateFrequency(p.observations, p.now),
    elapsed |-> p.now,
    requests |-> p.requests ]

\* the page after saveObservations: frequency is updated in place
afterSave(p, message) ==
  [p EXCEPT !.observations = calculateFrequency(p.observations, p.now),
            !.sent = message]

\* the callback of checkInterval
afterCheck(p) ==
  [p EXCEPT !.observations =
     calculateFrequency(detectDOMInjection(p.observations, p.injected), p.now)]

observerUnchanged ==
  UNCHANGED <<scoreVars, browserVars, storageVars, workerVars, otherVars, ingest, obsStore, hostPerms>>

\* an extension injects a script or an iframe of another origin
ScriptInjected ==
  /\ page.pc \in {"observing", "closed"}
  /\ ~page.injected
  /\ page' = [page EXCEPT !.injected = TRUE, !.sent = NoMessage]
  /\ observerUnchanged

\* the action of a form is changed: callback of the MutationObserver
FormActionChanged ==
  /\ page.pc \in {"observing", "closed"}
  /\ page' = [page EXCEPT !.observations.form_hijacking = TRUE,
                          !.observations.dom_injection = TRUE,
                          !.sent = NoMessage]
  /\ observerUnchanged

\* the keydown listener, with more than 10 keydown events in 5 seconds
KeydownBurst ==
  /\ page.pc \in {"observing", "closed"}
  /\ page' = [page EXCEPT !.observations.keystroke_capture = TRUE,
                          !.observations.frequency = "high",
                          !.sent = NoMessage]
  /\ observerUnchanged

\* the input listener, on a field it has not marked yet
InputEvent ==
  /\ page.pc \in {"observing", "closed"}
  /\ page' = [page EXCEPT !.observations.keystroke_capture = TRUE,
                          !.sent = NoMessage]
  /\ observerUnchanged

\* window.fetch(url) with the host of another origin
Fetch(domain) ==
  /\ page.pc \in {"observing", "closed"}
  /\ page.requests < MaxRequests
  /\ page' =
       IF domain \notin page.seenDomains
         THEN [page EXCEPT !.seenDomains = @ \cup {domain},
                           !.observations.fetch_domains = Append(@, domain),
                           !.observations.external_post = TRUE,
                           !.requests = @ + 1,
                           !.sent = NoMessage]
         ELSE [page EXCEPT !.requests = @ + 1, !.sent = NoMessage]
  /\ observerUnchanged

\* XMLHttpRequest open(method, url) and send() with the host of another origin
XhrSend(method, domain) ==
  /\ page.pc \in {"observing", "closed"}
  /\ page.requests < MaxRequests
  /\ page' =
       IF domain \notin page.seenDomains
         THEN [page EXCEPT !.seenDomains = @ \cup {domain},
                           !.observations.xhr_domains = Append(@, domain),
                           !.observations.external_post = (@ \/ method = "POST"),
                           !.requests = @ + 1,
                           !.postSeen = (@ \/ method = "POST"),
                           !.sent = NoMessage]
         ELSE [page EXCEPT !.requests = @ + 1,
                           !.postSeen = (@ \/ method = "POST"),
                           !.sent = NoMessage]
  /\ observerUnchanged

\* a second passes inside the window: checkInterval fires, and saveInterval
\* every fifth second
Tick ==
  /\ page.pc = "observing"
  /\ page.now + CheckInterval < ObservationWindow
  /\ LET p == afterCheck([page EXCEPT !.now = @ + CheckInterval])
     IN  page' = IF p.now % SaveInterval = 0
                   THEN afterSave(p, saveObservations(p))
                   ELSE [p EXCEPT !.sent = NoMessage]
  /\ observerUnchanged

\* the window closes: both intervals are cleared and the final save is
\* made; the interval callbacks due at the same instant run before it or
\* not at all
WindowCloses ==
  /\ page.pc = "observing"
  /\ page.now + CheckInterval = ObservationWindow
  /\ \E intervalsFirst \in BOOLEAN :
       LET p0 == [page EXCEPT !.now = @ + CheckInterval]
           p1 == IF intervalsFirst THEN afterCheck(p0) ELSE p0
           message == saveObservations(p1)
       IN  page' = [afterSave(p1, message) EXCEPT !.pc = "closed",
                                                  !.checking = FALSE,
                                                  !.saving = FALSE,
                                                  !.finalSent = (message # NoMessage)]
  /\ observerUnchanged

\* a second passes after the window closed: no timer is left
TickClosed ==
  /\ page.pc = "closed"
  /\ page.now < MaxSeconds
  /\ page' = [page EXCEPT !.now = @ + 1, !.sent = NoMessage]
  /\ observerUnchanged

\* beforeunload: the last save; the page and its timers are gone afterwards
Unload ==
  /\ page.pc \in {"observing", "closed"}
  /\ LET message == saveObservations(page)
     IN  page' = [afterSave(page, message) EXCEPT !.pc = "unloaded",
                                                  !.checking = FALSE,
                                                  !.saving = FALSE,
                                                  !.finalSent = (message # NoMessage)]
  /\ observerUnchanged

NextObserver ==
  \/ ScriptInjected
  \/ FormActionChanged
  \/ KeydownBurst
  \/ InputEvent
  \/ \E domain \in ExternalDomains : Fetch(domain)
  \/ \E method \in HttpMethods, domain \in ExternalDomains : XhrSend(method, domain)
  \/ Tick
  \/ WindowCloses
  \/ TickClosed
  \/ Unload

SpecObserver == InitObserver /\ [][NextObserver]_vars

\* ------------------------------------------------------------------------
\* handleRuntimeObservations (message saveRuntimeObservations)
\* ------------------------------------------------------------------------
\* pages whose content scripts report at the same time
MaxTabs == 2

\* a URL is <<scheme, host>>; a host permission is <<scheme, host>> with "*"
\* for a wildcard: <<"*", "*">> is <all_urls> or *://*/*, <<"http", "*">>
\* is http://*/*
PageUrls == {<<"https", "example.com">>, <<"https", "other.org">>}

HostPermissionChoices ==
  { {}, {<<"*", "*">>}, {<<"http", "*">>}, {<<"https", "example.com">>} }

\* the observation objects the content scripts send
ObservationPayloads ==
  { [ dom_injection |-> FALSE, form_hijacking |-> FALSE, keystroke_capture |-> FALSE,
      external_post |-> FALSE, fetch_domains |-> {}, xhr_domains |-> {},
      frequency |-> "low" ],
    [ dom_injection |-> TRUE, form_hijacking |-> FALSE, keystroke_capture |-> FALSE,
      external_post |-> FALSE, fetch_domains |-> {}, xhr_domains |-> {},
      frequency |-> "low" ],
    [ dom_injection |-> FALSE, form_hijacking |-> FALSE, keystroke_capture |-> FALSE,
      external_post |-> TRUE, fetch_domains |-> {<<"evil", "tk">>}, xhr_domains |-> {},
      frequency |-> "medium" ] }

\* hasUniversalAccess of the handler: one of the four patterns with host *
hasUniversalHostPermission(perms) == \E perm \in perms : perm[2] = "*"

\* hasHostPermission of the handler: the pattern with * turned into .* is
\* tested against protocol//hostname/*
hasHostPermission(perms, url) ==
  \E perm \in perms :
    /\ perm[1] = "*" \/ perm[1] = url[1]
    /\ perm[2] = "*" \/ perm[2] = url[2]

\* matchingExtensions of the handler
matchingExtensions(url) ==
  { e \in enabled :
      hasUniversalHostPermission(hostPerms[e]) \/ hasHostPermission(hostPerms[e], url) }

InitIngest ==
  /\ extension = NoExtension
  /\ runtimeObs = NoObservations
  /\ apiResult = NoApiCall
  /\ report = NoReport
  /\ installed = ExtensionIds
  /\ enabled \in SUBSET ExtensionIds
  /\ blacklist = {}
  /\ whitelist = {}
  /\ autoScan = "unset"
  /\ scanResult = {}
  /\ newExtension = {}
  /\ lastScan = NoLastScan
  /\ lastExtensionCount = 0
  /\ mgmt = IdleHandler
  /\ startup = IdleHandler
  /\ periodic = IdleHandler
  /\ page = NoPage
  /\ ingest = {}
  /\ obsStore = [e \in ExtensionIds |-> NoObservations]
  /\ hostPerms \in [ExtensionIds -> HostPermissionChoices]
  /\ InitOther

\* a saveRuntimeObservations message arrives: discoverExtensions and the
\* filter run, the loop over the matching extensions is about to start
IngestStart ==
  /\ Cardinality(ingest) < MaxTabs
  /\ \E o \in ObservationPayloads, u \in PageUrls :
       ingest' = ingest \cup {[observations |-> o, url |-> u, todo |-> matchingExtensions(u)]}
  /\ UNCHANGED <<scoreVars, browserVars, storageVars, workerVars, otherVars, page, obsStore, hostPerms>>

\* one iteration of a handler's loop: storage.local.set({runtime_obs_{id}:
\* observations}); the url is kept beside the stored object for reference
IngestStore ==
  /\ \E h \in ingest : \E e \in h.todo :
       /\ obsStore' = [obsStore EXCEPT ![e] = [observations |-> h.observations,
                                                url |-> h.url]]
       /\ ingest' = (ingest \ {h}) \cup {[h EXCEPT !.todo = @ \ {e}]}
  /\ UNCHANGED <<scoreVars, browserVars, storageVars, workerVars, otherVars, page, hostPerms>>

\* a handler has stored for all its extensions and answers the message
IngestEnd ==
  /\ \E h \in ingest :
       /\ h.todo = {}
       /\ ingest' = ingest \ {h}
  /\ UNCHANGED <<scoreVars, browserVars, storageVars, workerVars, otherVars, page, obsStore, hostPerms>>

NextIngest == IngestStart \/ IngestStore \/ IngestEnd

SpecIngest == InitIngest /\ [][NextIngest]_vars

\* ------------------------------------------------------------------------
\* The user and the browser
\* ------------------------------------------------------------------------
\* The onStartup listener and the periodic check have no timer in them: the
\* user's actions are taken between their runs.  The management listeners
\* wait 200 to 1000 ms, and the user may act while one of them waits.
userMayAct ==
  /\ mgmt.pc # "done"
  /\ startup.pc = "idle"
  /\ periodic.pc = "idle"

\* one listener runs at a time
noneInFlight ==
  /\ mgmt.pc = "idle"
  /\ startup.pc = "idle"
  /\ periodic.pc = "idle"

\* the handler record of a freshly dispatched management event
dispatched(kind, e) ==
  [ pc |-> "start", kind |-> kind, ext |-> e,
    wasBlacklisted |-> e \in blacklist,
    wasEligible |-> e \notin blacklist /\ e \notin whitelist /\ autoScan # "false",
    outcome |-> "pending" ]

\* the user installs an extension: chrome.management.onInstalled fires
Install(e) ==
  /\ noneInFlight
  /\ e \notin installed
  /\ installed' = installed \cup {e}
  /\ enabled' = enabled \cup {e}
  /\ mgmt' = dispatched("onInstalled", e)
  /\ UNCHANGED <<scoreVars, pageVars, otherVars, storageVars, lastExtensionCount, startup, periodic>>

\* the user enables a disabled extension: chrome.management.onEnabled fires
Enable(e) ==
  /\ noneInFlight
  /\ e \in installed \ enabled
  /\ enabled' = enabled \cup {e}
  /\ mgmt' = dispatched("onEnabled", e)
  /\ UNCHANGED <<scoreVars, pageVars, otherVars, installed, storageVars, lastExtensionCount, startup, periodic>>

\* the user disables an extension (no listener)
Disable(e) ==
  /\ userMayAct
  /\ e \in enabled
  /\ enabled' = enabled \ {e}
  /\ UNCHANGED <<scoreVars, pageVars, otherVars, installed, storageVars, workerVars>>

\* the user removes an extension (no listener)
Uninstall(e) ==
  /\ userMayAct
  /\ e \in installed
  /\ installed' = installed \ {e}
  /\ enabled' = enabled \ {e}
  /\ UNCHANGED <<scoreVars, pageVars, otherVars, storageVars, workerVars>>

\* popup, addToBlacklist: the key is stored and an enabled extension is asked
\* to be disabled; a failure of that request is only logged
AddToBlacklist(e) ==
  /\ userMayAct
  /\ e \in installed \ blacklist
  /\ blacklist' = blacklist \cup {e}
  /\ \/ enabled' = enabled \ {e}
     \/ e \in enabled /\ enabled' = enabled
  /\ UNCHANGED <<scoreVars, pageVars, otherVars, installed, whitelist, autoScan, scanResult, newExtension,
                 lastScan, workerVars>>

\* popup, remove-blacklist
RemoveFromBlacklist(e) ==
  /\ userMayAct
  /\ e \in blacklist
  /\ blacklist' = blacklist \ {e}
  /\ UNCHANGED <<scoreVars, pageVars, otherVars, browserVars, whitelist, autoScan, scanResult, newExtension,
                 lastScan, workerVars>>

\* popup, addToWhitelist
AddToWhitelist(e) ==
  /\ userMayAct
  /\ e \in installed \ whitelist
  /\ whitelist' = whitelist \cup {e}
  /\ UNCHANGED <<scoreVars, pageVars, otherVars, browserVars, blacklist, autoScan, scanResult, newExtension,
                 lastScan, workerVars>>

\* popup, remove-whitelist
RemoveFromWhitelist(e) ==
  /\ userMayAct
  /\ e \in whitelist
  /\ whitelist' = whitelist \ {e}
  /\ UNCHANGED <<scoreVars, pageVars, otherVars, browserVars, blacklist, autoScan, scanResult, newExtension,
                 lastScan, workerVars>>

\* popup, the autoScan toggle switch (shown as on unless the value is false)
ToggleAutoScan ==
  /\ userMayAct
  /\ autoScan' = IF autoScan = "false" THEN "true" ELSE "false"
  /\ UNCHANGED <<scoreVars, pageVars, otherVars, browserVars, blacklist, whitelist, scanResult, newExtension,
                 lastScan, workerVars>>

\* ------------------------------------------------------------------------
\* chrome.management.onInstalled / onEnabled listeners
\* ------------------------------------------------------------------------
finished(outcome) == [mgmt EXCEPT !.pc = "done", !.outcome = outcome]

\* the listener reads autoScan and the whole storage and decides
HandlerDecide ==
  /\ mgmt.pc = "start"
  /\ mgmt' =
       IF autoScan = "false" THEN finished("autoscan-off")
       ELSE IF mgmt.ext \in blacklist THEN [mgmt EXCEPT !.pc = "disable"]
       ELSE IF mgmt.ext \in whitelist THEN finished("whitelisted")
       ELSE [mgmt EXCEPT !.pc = "scan"]
  /\ UNCHANGED <<scoreVars, pageVars, otherVars, browserVars, storageVars, lastExtensionCount, startup, periodic>>

\* after the delay: chrome.management.setEnabled(id, false); when it rejects,
\* the catch block schedules a second attempt one second later
HandlerDisable ==
  /\ mgmt.pc = "disable"
  /\ \/ /\ mgmt.ext \in installed
        /\ enabled' = enabled \ {mgmt.ext}
        /\ mgmt' = finished("disabled")
     \/ /\ enabled' = enabled
        /\ mgmt' = [mgmt EXCEPT !.pc = "retry"]
  /\ UNCHANGED <<scoreVars, pageVars, otherVars, installed, storageVars, lastExtensionCount, startup, periodic>>

\* the second attempt; its failure is only logged
HandlerRetry ==
  /\ mgmt.pc = "retry"
  /\ \/ /\ mgmt.ext \in installed
        /\ enabled' = enabled \ {mgmt.ext}
        /\ mgmt' = finished("disabled")
     \/ /\ enabled' = enabled
        /\ mgmt' = finished("disable-failed")
  /\ UNCHANGED <<scoreVars, pageVars, otherVars, installed, storageVars, lastExtensionCount, startup, periodic>>

\* scanOneExtension up to the call of correlateRisk: "found" when the
\* extension is installed and on neither list, else why it returns null
scanLookup(e) ==
  IF e \notin installed THEN "notfound"
  ELSE IF e \in blacklist THEN "blacklisted"
  ELSE IF e \in whitelist THEN "whitelisted"
  ELSE "found"

\* scanOneExtension returning its result without storing it
scanStored_notStored(results, e) == results

\* scanOneExtension's chrome.storage.local.set of scan_result_{id}
scanStored(results, e) == results \cup {e}

\* the listener calls scanOneExtension (onInstalled: after 500 ms)
HandlerScanLookup ==
  /\ mgmt.pc = "scan"
  /\ mgmt' = IF scanLookup(mgmt.ext) = "found"
               THEN [mgmt EXCEPT !.pc = "analyze"]
               ELSE finished(scanLookup(mgmt.ext))
  /\ UNCHANGED <<scoreVars, pageVars, otherVars, browserVars, storageVars, lastExtensionCount, startup, periodic>>

\* correlateRisk returns, scan_result_{id} is stored; onInstalled also saves
\* new_extension_{id} (saveNewExtensionResult)
HandlerScanStore ==
  /\ mgmt.pc = "analyze"
  /\ scanResult' = scanStored(scanResult, mgmt.ext)
  /\ newExtension' = IF mgmt.kind = "onInstalled"
                       THEN newExtension \cup {mgmt.ext} ELSE newExtension
  /\ mgmt' = finished("stored")
  /\ UNCHANGED <<scoreVars, pageVars, otherVars, browserVars, blacklist, whitelist, autoScan, lastScan,
                 lastExtensionCount, startup, periodic>>

\* the listener returns
HandlerReturn ==
  /\ mgmt.pc = "done"
  /\ mgmt' = IdleHandler
  /\ UNCHANGED <<scoreVars, pageVars, otherVars, browserVars, storageVars, lastExtensionCount, startup, periodic>>

\* ------------------------------------------------------------------------
\* chrome.runtime.onInstalled / onStartup listeners
\* ------------------------------------------------------------------------
\* scanAllExtensions: the lastScan entry is written; when discovery throws,
\* the catch block returns success false and nothing is written
scanAllExtensions == {StoredLastScan, lastScan}

\* the analyzer itself is installed or updated
AnalyzerInstalled ==
  /\ noneInFlight
  /\ lastScan' \in scanAllExtensions
  /\ UNCHANGED <<scoreVars, pageVars, otherVars, browserVars, blacklist, whitelist, autoScan, scanResult,
                 newExtension, workerVars>>

\* Chrome starts: the worker is loaded (initializePeriodicCheck) and the
\* onStartup listener reads the blacklist keys from storage
StartupReadBlacklist ==
  /\ noneInFlight
  /\ lastExtensionCount' = Cardinality(userExtensions)
  /\ startup' = [pc |-> IF blacklist = {} THEN "scan" ELSE "getAll",
                 blacklist |-> blacklist, targets |-> {}, todo |-> {},
                 requested |-> {}, failed |-> {}]
  /\ UNCHANGED <<scoreVars, pageVars, otherVars, browserVars, storageVars, mgmt, periodic>>

\* chrome.management.getAll(): targets are the blacklisted ids whose entry
\* in the returned list is enabled
StartupGetAll ==
  /\ startup.pc = "getAll"
  /\ startup' = [startup EXCEPT !.pc = "loop",
                                !.targets = startup.blacklist \cap enabled,
                                !.todo = startup.blacklist]
  /\ UNCHANGED <<scoreVars, pageVars, otherVars, browserVars, storageVars, lastExtensionCount, mgmt, periodic>>

\* a rejected setEnabled leaving the loop
startupAfterFailure_abort(todo, e) == {}

\* the inner catch block logs the error and the loop goes on
startupAfterFailure(todo, e) == todo \ {e}

\* one iteration of the loop over the blacklist
StartupLoop ==
  /\ startup.pc = "loop"
  /\ startup.todo # {}
  /\ \E e \in startup.todo :
       IF e \in startup.targets
         THEN \/ /\ enabled' = enabled \ {e}
                 /\ startup' = [startup EXCEPT !.todo = @ \ {e},
                                               !.requested = @ \cup {e}]
              \/ /\ enabled' = enabled
                 /\ startup' = [startup EXCEPT !.todo = startupAfterFailure(@, e),
                                               !.requested = @ \cup {e},
                                               !.failed = @ \cup {e}]
         ELSE /\ enabled' = enabled
              /\ startup' = [startup EXCEPT !.todo = @ \ {e}]
  /\ UNCHANGED <<scoreVars, pageVars, otherVars, installed, storageVars, lastExtensionCount, mgmt, periodic>>

\* the loop is over
StartupLoopEnd ==
  /\ startup.pc = "loop"
  /\ startup.todo = {}
  /\ startup' = [startup EXCEPT !.pc = "scan"]
  /\ UNCHANGED <<scoreVars, pageVars, otherVars, browserVars, storageVars, lastExtensionCount, mgmt, periodic>>

\* await scanAllExtensions('onStartup')
StartupScan ==
  /\ startup.pc = "scan"
  /\ lastScan' \in scanAllExtensions
  /\ startup' = [startup EXCEPT !.pc = "done"]
  /\ UNCHANGED <<scoreVars, pageVars, otherVars, browserVars, blacklist, whitelist, autoScan, scanResult,
                 newExtension, lastExtensionCount, mgmt, periodic>>

\* the listener returns
StartupReturn ==
  /\ startup.pc = "done"
  /\ startup' = IdleHandler
  /\ UNCHANGED <<scoreVars, pageVars, otherVars, browserVars, storageVars, lastExtensionCount, mgmt, periodic>>

\* ------------------------------------------------------------------------
\* Periodic check
\* ------------------------------------------------------------------------
\* the worker is stopped when idle and loaded again: initializePeriodicCheck
WorkerRestart ==
  /\ noneInFlight
  /\ lastExtensionCount' = Cardinality(userExtensions)
  /\ UNCHANGED <<scoreVars, pageVars, otherVars, browserVars, storageVars, mgmt, startup, periodic>>

\* checkForNewExtensions up to the loop: the list is read and its length is
\* compared with lastExtensionCount; only a larger count starts the loop
PeriodicCheck ==
  /\ noneInFlight
  /\ LET currentCount == Cardinality(userExtensions)
     IN IF currentCount > lastExtensionCount
          THEN /\ periodic' = [pc |-> "loop", snapshot |-> userExtensions,
                               todo |-> userExtensions \ whitelist,
                               excused |-> userExtensions \cap whitelist]
               /\ UNCHANGED lastExtensionCount
          ELSE /\ periodic' = [pc |-> "done", snapshot |-> userExtensions,
                               todo |-> {},
                               excused |-> userExtensions \cap whitelist]
               /\ lastExtensionCount' = currentCount
  /\ UNCHANGED <<scoreVars, pageVars, otherVars, browserVars, storageVars, mgmt, startup>>

\* one iteration of the loop: an extension without scan_result_{id} is
\* handed to scanOneExtension(id, 'periodic-check')
PeriodicLoop ==
  /\ periodic.pc = "loop"
  /\ periodic.todo # {}
  /\ \E e \in periodic.todo :
       IF e \in scanResult
         THEN /\ periodic' = [periodic EXCEPT !.todo = @ \ {e}]
              /\ UNCHANGED scanResult
         ELSE IF scanLookup(e) = "found"
           THEN /\ scanResult' = scanStored(scanResult, e)
                /\ periodic' = [periodic EXCEPT !.todo = @ \ {e}]
           ELSE /\ periodic' = [periodic EXCEPT !.todo = @ \ {e},
                                                !.excused = @ \cup {e}]
                /\ UNCHANGED scanResult
  /\ UNCHANGED <<scoreVars, pageVars, otherVars, browserVars, blacklist, whitelist, autoScan, newExtension,
                 lastScan, lastExtensionCount, mgmt, startup>>

\* after the loop: lastExtensionCount = currentCount
PeriodicLoopEnd ==
  /\ periodic.pc = "loop"
  /\ periodic.todo = {}
  /\ lastExtensionCount' = Cardinality(periodic.snapshot)
  /\ periodic' = [periodic EXCEPT !.pc = "done"]
  /\ UNCHANGED <<scoreVars, pageVars, otherVars, browserVars, storageVars, mgmt, startup>>

\* checkForNewExtensions returns
PeriodicReturn ==
  /\ periodic.pc = "done"
  /\ periodic' = IdleHandler
  /\ UNCHANGED <<scoreVars, pageVars, otherVars, browserVars, storageVars, lastExtensionCount, mgmt, startup>>

\* ------------------------------------------------------------------------
\* The background worker as a whole
\* ------------------------------------------------------------------------
Init ==
  /\ InitWorker
  /\ extension = NoExtension
  /\ runtimeObs = NoObservations
  /\ apiResult = NoApiCall
  /\ report = NoReport

Next ==
  \/ \E e \in ExtensionIds : Install(e)
  \/ \E e \in ExtensionIds : Enable(e)
  \/ \E e \in ExtensionIds : Disable(e)
  \/ \E e \in ExtensionIds : Uninstall(e)
  \/ \E e \in ExtensionIds : AddToBlacklist(e)
  \/ \E e \in ExtensionIds : RemoveFromBlacklist(e)
  \/ \E e \in ExtensionIds : AddToWhitelist(e)
  \/ \E e \in ExtensionIds : RemoveFromWhitelist(e)
  \/ ToggleAutoScan
  \/ HandlerDecide
  \/ HandlerDisable
  \/ HandlerRetry
  \/ HandlerScanLookup
  \/ HandlerScanStore
  \/ HandlerReturn
  \/ AnalyzerInstalled
  \/ StartupReadBlacklist
  \/ StartupGetAll
  \/ StartupLoop
  \/ StartupLoopEnd
  \/ StartupScan
  \/ StartupReturn
  \/ WorkerRestart
  \/ PeriodicCheck
  \/ PeriodicLoop
  \/ PeriodicLoopEnd
  \/ PeriodicReturn

Spec == Init /\ [][Next]_vars

\* ------------------------------------------------------------------------
\* scanAllExtensions and scanOneExtension with their results
\* ------------------------------------------------------------------------
\* the reasons scanAllExtensions is called with: the scanExtensions message
\* of the popup, runtime.onInstalled of the analyzer, runtime.onStartup
ScanReasons == {"manual", "onInstalled", "onStartup"}

\* the calls no user asked for
AutomaticReasons == {"onInstalled", "onStartup"}

InitScan ==
  /\ extension = NoExtension
  /\ runtimeObs = NoObservations
  /\ apiResult = NoApiCall
  /\ report = NoReport
  /\ installed \in SUBSET ExtensionIds
  /\ enabled = installed
  /\ blacklist = {}
  /\ whitelist = {}
  /\ autoScan = "unset"
  /\ scanResult = {}
  /\ newExtension = {}
  /\ lastScan = NoLastScan
  /\ lastExtensionCount = Cardinality(installed)
  /\ mgmt = IdleHandler
  /\ startup = IdleHandler
  /\ periodic = IdleHandler
  /\ InitNoPage

\* what scanAllExtensions returns from its catch block
scanFailure(reason, error) ==
  [success |-> FALSE, error |-> error, extensions |-> {}, reason |-> reason]

\* a failing scan that stores the results it has
lastScanAfterFailure_partial(stored, call) ==
  [reason |-> call.reason, total |-> call.total, results |-> {}]

\* lastScan after a scan that threw: chrome.storage.local.set was not reached
lastScanAfterFailure(stored, call) == stored

\* scanAllExtensions(reason) up to Promise.all: discovery, then the whitelist
\* keys are read and the whitelisted extensions are filtered out; a failure
\* of discovery or of the read ends the call
ScanAllStart(reason) ==
  /\ noneInFlight
  /\ scan.pc = "idle"
  /\ \/ scan' = [ pc |-> "analyzing", reason |-> reason,
                  total |-> Cardinality(userExtensions),
                  extensionsToScan |-> userExtensions \ whitelist ]
     \/ scan' = [ pc |-> "done", reason |-> reason, response |-> scanFailure(reason, "discovery") ]
  /\ UNCHANGED <<scoreVars, pageVars, engineVars, importData, view, browserVars, storageVars,
                 workerVars>>

\* every correlateRisk has returned: lastScan is stored and the results are
\* returned
ScanAllStore ==
  /\ scan.pc = "analyzing"
  /\ lastScan' = [ reason |-> scan.reason, total |-> scan.total,
                   results |-> scan.extensionsToScan ]
  /\ scan' = [ pc |-> "done", reason |-> scan.reason,
               response |-> [ success |-> TRUE, total |-> scan.total,
                              scanned |-> Cardinality(scan.extensionsToScan),
                              extensions |-> scan.extensionsToScan,
                              reason |-> scan.reason ] ]
  /\ UNCHANGED <<scoreVars, pageVars, engineVars, importData, view, browserVars, blacklist,
                 whitelist, autoScan, scanResult, newExtension, workerVars>>

\* one correlateRisk, or the write of lastScan, throws
ScanAllFail ==
  /\ scan.pc = "analyzing"
  /\ lastScan' = lastScanAfterFailure(lastScan, scan)
  /\ scan' = [ pc |-> "done", reason |-> scan.reason, response |-> scanFailure(scan.reason, "analysis") ]
  /\ UNCHANGED <<scoreVars, pageVars, engineVars, importData, view, browserVars, blacklist,
                 whitelist, autoScan, scanResult, newExtension, workerVars>>

\* the caller has the response
ScanAllReturn ==
  /\ scan.pc = "done"
  /\ scan' = IdleScan
  /\ UNCHANGED <<scoreVars, pageVars, engineVars, importData, view, browserVars, storageVars,
                 workerVars>>

\* the showExtension message: scanOneExtension(id, 'showExtension'), and
\* new_extension_{id} is stored when it returns a result
ShowExtension(e) ==
  /\ noneInFlight
  /\ scan.pc = "idle"
  /\ scanLookup(e) = "found"
  /\ scanResult' = scanStored(scanResult, e)
  /\ newExtension' = newExtension \cup {e}
  /\ UNCHANGED <<scoreVars, pageVars, otherVars, browserVars, blacklist, whitelist, autoScan,
                 lastScan, workerVars>>

NextScan ==
  \/ \E e \in ExtensionIds : Uninstall(e)
  \/ \E e \in ExtensionIds : AddToBlacklist(e)
  \/ \E e \in ExtensionIds : RemoveFromBlacklist(e)
  \/ \E e \in ExtensionIds : AddToWhitelist(e)
  \/ \E e \in ExtensionIds : RemoveFromWhitelist(e)
  \/ ToggleAutoScan
  \/ \E reason \in ScanReasons : ScanAllStart(reason)
  \/ ScanAllStore
  \/ ScanAllFail
  \/ ScanAllReturn
  \/ \E e \in ExtensionIds : ShowExtension(e)

SpecScan == InitScan /\ [][NextScan]_vars

\* ------------------------------------------------------------------------
\* The popup: importResults
\* ------------------------------------------------------------------------
\* a list of the file that is missing or not an array
NoList == [missing |-> TRUE]

\* the files importResults accepts: scanResults is an array (here the ids of
\* its entries); whitelist and blacklist are arrays of ids or missing
ImportFiles ==
  [ scanResults : SUBSET ExtensionIds,
    whitelist : {[ids |-> w] : w \in SUBSET ExtensionIds} \cup {NoList},
    blacklist : {[ids |-> b] : b \in SUBSET ExtensionIds} \cup {NoList} ]

\* the storage the user imports into
InitImport ==
  /\ extension = NoExtension
  /\ runtimeObs = NoObservations
  /\ apiResult = NoApiCall
  /\ report = NoReport
  /\ installed \in SUBSET ExtensionIds
  /\ enabled = installed
  /\ blacklist \in SUBSET ExtensionIds
  /\ whitelist \in SUBSET ExtensionIds
  /\ autoScan = "unset"
  /\ scanResult \in SUBSET ExtensionIds
  /\ newExtension = {}
  /\ lastScan \in {NoLastScan, StoredLastScan}
  /\ lastExtensionCount = Cardinality(installed)
  /\ mgmt = IdleHandler
  /\ startup = IdleHandler
  /\ periodic = IdleHandler
  /\ InitNoPage

\* the keys with a prefix after the import: the old ones are removed and the
\* file's are set when the file has the list
importedKeys(stored, list) == IF list = NoList THEN stored ELSE list.ids

\* the scan_result_ keys after the import: the file's are set
importedScanResults(stored, file) == stored \cup file.scanResults

\* importResults(file) with the confirm dialog accepted
ImportResults(file) ==
  /\ importData = NoImport
  /\ importData' = file
  /\ whitelist' = importedKeys(whitelist, file.whitelist)
  /\ blacklist' = importedKeys(blacklist, file.blacklist)
  /\ lastScan' = [ reason |-> "imported", total |-> Cardinality(file.scanResults),
                   results |-> file.scanResults ]
  /\ scanResult' = importedScanResults(scanResult, file)
  /\ UNCHANGED <<scoreVars, pageVars, engineVars, scan, view, browserVars, autoScan,
                 newExtension, workerVars>>

NextImport == \E file \in ImportFiles : ImportResults(file)

SpecImport == InitImport /\ [][NextImport]_vars

\* ------------------------------------------------------------------------
\* The popup: the list of unscanned extensions and its filters
\* ------------------------------------------------------------------------
\* items of the list
MaxItems == 2

\* what the details of an item show as the install source
ItemInstallTypes == {"normal", "development", "sideload"}

StatusFilterValues == {"all", "enabled", "disabled", "kept"}

InstallTypeFilterValues == {"all"} \cup ItemInstallTypes

\* an .extension-item-unscanned element: data-disabled, data-kept, the
\* install source of its details, and the class hidden
UnscannedItems ==
  [disabled : BOOLEAN, kept : BOOLEAN, installType : ItemInstallTypes, hidden : {FALSE}]

UnscannedLists == UNION {[1..n -> UnscannedItems] : n \in 0..MaxItems}

\* the popup is open on the unscanned view; filtersPresent tells that the
\* search input and the two filter selects are in the document
InitFilter ==
  /\ extension = NoExtension
  /\ runtimeObs = NoObservations
  /\ apiResult = NoApiCall
  /\ report = NoReport
  /\ installed = {}
  /\ enabled = {}
  /\ blacklist = {}
  /\ whitelist = {}
  /\ autoScan = "unset"
  /\ scanResult = {}
  /\ newExtension = {}
  /\ lastScan = NoLastScan
  /\ lastExtensionCount = 0
  /\ mgmt = IdleHandler
  /\ startup = IdleHandler
  /\ periodic = IdleHandler
  /\ page = NoPage
  /\ ingest = {}
  /\ obsStore = [e \in ExtensionIds |-> NoObservations]
  /\ hostPerms = [e \in ExtensionIds |-> {}]
  /\ scan = IdleScan
  /\ importData = NoImport
  /\ timeline = NoTimeline
  /\ correlationReport = NoCorrelationReport
  /\ \E items \in UnscannedLists, present \in BOOLEAN :
       view = [ pc |-> "idle", items |-> items, filtersPresent |-> present,
                statusFilter |-> "all", installTypeFilter |-> "all" ]

filterUnchanged ==
  UNCHANGED <<scoreVars, browserVars, storageVars, workerVars, pageVars, engineVars, scan,
              importData>>

\* applyFiltersUnscanned: whether an item is shown (empty search query)
shouldShow(item, statusFilterValue, installTypeFilterValue) ==
  /\ ~(statusFilterValue = "enabled" /\ item.disabled)
  /\ ~(statusFilterValue = "disabled" /\ ~item.disabled)
  /\ ~(statusFilterValue = "kept" /\ ~item.kept)
  /\ installTypeFilterValue = "all" \/ installTypeFilterValue = item.installType

\* loadUnscannedExtensions has rendered a list that is not empty: after
\* 100 ms it calls filterUnscannedExtensionsByTab('all-unscanned')
LoadUnscannedExtensions ==
  /\ view.pc = "idle"
  /\ view.items # <<>>
  /\ view' = [view EXCEPT !.pc = "filterByTab",
                          !.items = [i \in DOMAIN view.items |->
                                       [view.items[i] EXCEPT !.hidden = FALSE]]]
  /\ filterUnchanged

\* the change listener of the status select: applyFiltersUnscanned
ChangeStatusFilter(value) ==
  /\ view.pc = "idle"
  /\ view.filtersPresent
  /\ value # view.statusFilter
  /\ view' = [view EXCEPT !.pc = "applyFilters", !.statusFilter = value]
  /\ filterUnchanged

\* the change listener of the install type select: applyFiltersUnscanned
ChangeInstallTypeFilter(value) ==
  /\ view.pc = "idle"
  /\ view.filtersPresent
  /\ value # view.installTypeFilter
  /\ view' = [view EXCEPT !.pc = "applyFilters", !.installTypeFilter = value]
  /\ filterUnchanged

\* applyFiltersUnscanned: returns when a filter element is missing or the
\* list is empty; otherwise hides the items filtered out and calls
\* filterUnscannedExtensionsByTab('all-unscanned')
ApplyFiltersUnscanned ==
  /\ view.pc = "applyFilters"
  /\ view' =
       IF ~view.filtersPresent \/ view.items = <<>>
         THEN [view EXCEPT !.pc = "idle"]
         ELSE [view EXCEPT
                 !.pc = "filterByTab",
                 !.items = [i \in DOMAIN view.items |->
                              [view.items[i] EXCEPT
                                 !.hidden = ~shouldShow(view.items[i], view.statusFilter,
                                                        view.installTypeFilter)]]]
  /\ filterUnchanged

\* filterUnscannedExtensionsByTab up to its await of chrome.storage.local.get
FilterByTabRead ==
  /\ view.pc = "filterByTab"
  /\ view' = [view EXCEPT !.pc = "filterByTabCount"]
  /\ filterUnchanged

\* filterUnscannedExtensionsByTab after the await: the counts are updated
\* and applyFiltersUnscanned is called
FilterByTabCount ==
  /\ view.pc = "filterByTabCount"
  /\ view' = [view EXCEPT !.pc = "applyFilters"]
  /\ filterUnchanged

NextFilter ==
  \/ LoadUnscannedExtensions
  \/ \E value \in StatusFilterValues : ChangeStatusFilter(value)
  \/ \E value \in InstallTypeFilterValues : ChangeInstallTypeFilter(value)
  \/ ApplyFiltersUnscanned
  \/ FilterByTabRead
  \/ FilterByTabCount

SpecFilter == InitFilter /\ [][NextFilter]_vars

\* the event loop runs every call and every continuation that is pending
SpecFilterLive ==
  /\ SpecFilter
  /\ WF_vars(ApplyFiltersUnscanned)
  /\ WF_vars(FilterByTabRead)
  /\ WF_vars(FilterByTabCount)

\* ========================================================================
\* Claims about the scoring pipeline (checked under SpecScore)
\* ========================================================================

\* the tenfold exact blend the report's breakdown stands for
blendTenths(r) ==
  IF r.behaviorVector.form_hijacking
    THEN 3 * r.breakdown.staticScore + 7 * r.breakdown.runtimeScore
    ELSE 6 * r.breakdown.staticScore + 4 * r.breakdown.runtimeScore

\* r's riskScore is an integer within one half of the exact blend, plus the
\* install-source bonus, clamped to at most 100
isRoundedBlend(r) ==
  \E x \in (blendTenths(r) \div 10)..(blendTenths(r) \div 10 + 1) :
    /\ 10 * x - blendTenths(r) <= 5
    /\ blendTenths(r) - 10 * x <= 5
    /\ r.riskScore = Min(x + r.breakdown.installSourceBonus, 100)

\* the stored observations with one behavior flag set
withFlag(observations, flag) == [observations EXCEPT ![flag] = TRUE]

BehaviorFlags == {"dom_injection", "form_hijacking", "keystroke_capture", "external_post"}

\* C1: the riskScore of every report returned by correlateRisk lies in
\* [0,100], whatever the extension, the stored observations and the source
\* of the static score (remote API or local manifest analysis).
C1_ScoreInRange == hasReport => report.riskScore \in 0..100

\* C1 witness: a local analysis whose manifest points exceed 100, whose
\* runtime points reach the cap and which gets the install-source bonus.
C1_Witness ==
  /\ hasReport
  /\ ~report.breakdown.usingAnalyzerAPI
  /\ manifestPoints(extension) > 100
  /\ report.breakdown.runtimeScore = 100
  /\ report.breakdown.installSourceBonus = 5
  /\ report.riskScore = 100

\* C2 (as claimed): after a local analysis, adding one rule permission or
\* universal host access, or setting one behavior flag, never gives a lower
\* riskScore than the one reported.
C2_Monotone ==
  (hasReport /\ apiResult = ApiFailure /\ runtimeObs # NoObservations) =>
    /\ \A p \in RulePermissions \ extension.permissions :
         correlateRisk([extension EXCEPT !.permissions = @ \cup {p}],
                       ApiFailure, runtimeObs).riskScore >= report.riskScore
    /\ correlateRisk([extension EXCEPT !.hostPermissions = @ \cup {"<all_urls>"}],
                     ApiFailure, runtimeObs).riskScore >= report.riskScore
    /\ \A flag \in BehaviorFlags :
         correlateRisk(extension, ApiFailure, withFlag(runtimeObs, flag)).riskScore
           >= report.riskScore

withoutFormHijacking ==
  correlateRisk(extension, apiResult, [runtimeObs EXCEPT !.form_hijacking = FALSE])

C5_TierByScore ==
  hasReport =>
    /\ (report.riskLevel = "LOW") <=> (report.riskScore \in 0..30)
    /\ (report.riskLevel = "MEDIUM") <=> (report.riskScore \in 31..60)
    /\ (report.riskLevel = "HIGH") <=> (report.riskScore \in 61..80)
    /\ (report.riskLevel = "CRITICAL") <=> (report.riskScore \in 81..100)

\* C5 witness: a report exactly on the first point of the CRITICAL tier.
C5_Witness == hasReport /\ report.riskScore = 81 /\ report.riskLevel = "CRITICAL"

\* C6 (as claimed): for the analysed extension and stored observations,
\* every analysis yields the riskScore, riskLevel and breakdown of this
\* report, whether the remote API call succeeds or the local fallback runs.
C6_Deterministic ==
  hasReport =>
    \A answer \in ApiOutcomes :
      LET again == correlateRisk(extension, answer, runtimeObs)
      IN  /\ again.riskScore = report.riskScore
          /\ again.riskLevel = report.riskLevel
          /\ again.breakdown = report.breakdown

\* ========================================================================
\* Claims about the event handlers
\* ========================================================================

\* C7: an extension that was blacklisted when it was installed or enabled,
\* and still is, is disabled when the onInstalled / onEnabled listener has
\* finished, whatever the autoScan setting, unless both setEnabled attempts
\* failed.
C7_BlacklistedDisabled ==
  ( /\ mgmt.pc = "done"
    /\ mgmt.wasBlacklisted
    /\ mgmt.ext \in blacklist
    /\ mgmt.ext \in installed
    /\ mgmt.outcome # "disable-failed" )
  => mgmt.ext \notin enabled

\* C8: once the onStartup listener has left its loop, setEnabled(false) has
\* been requested for every blacklisted extension that getAll() reported as
\* enabled, every one whose request did not fail is disabled, and the
\* listener goes on to the startup scan.
C8_StartupDisablesAll ==
  /\ startup.pc \in {"scan", "done"} =>
       /\ startup.todo = {}
       /\ startup.targets \subseteq startup.requested
       /\ (startup.requested \ startup.failed) \cap enabled = {}
  /\ startup.pc = "loop" => startup.targets \subseteq startup.requested \cup startup.todo

\* the startup listener has finished after one request failed and another
\* one succeeded
C8_Witness ==
  /\ startup.pc = "done"
  /\ startup.failed # {}
  /\ startup.requested \ startup.failed # {}
  /\ lastScan = StoredLastScan

C10_PeriodicMissesNone ==
  periodic.pc = "done" =>
    \A e \in periodic.snapshot \ periodic.excused : e \in scanResult

\* ========================================================================
\* Claims about missing observations and the reference scenarios
\* ========================================================================
\* observations that were stored and report nothing
BenignObservations ==
  [ dom_injection |-> FALSE, form_hijacking |-> FALSE, keystroke_capture |-> FALSE,
    external_post |-> FALSE, fetch_domains |-> {}, xhr_domains |-> {},
    frequency |-> "low" ]

noObservedBehavior == runtimeObs \in {NoObservations, BenignObservations}

\* the behaviour vector with every flag false, no domain and frequency low
isMinimalRisk(behaviorVector) ==
  /\ ~behaviorVector.dom_injection
  /\ ~behaviorVector.form_hijacking
  /\ ~behaviorVector.keystroke_capture
  /\ ~behaviorVector.external_post
  /\ behaviorVector.fetch_domains = {}
  /\ behaviorVector.xhr_domains = {}
  /\ behaviorVector.suspicious_domains = {}
  /\ ~behaviorVector.data_exfiltration
  /\ behaviorVector.frequency = "low"

\* C13: in every report, data_exfiltration is true when external_post is,
\* whether or not a destination domain is suspicious.
C13_PostIsExfiltration ==
  hasReport =>
    (report.behaviorVector.external_post => report.behaviorVector.data_exfiltration)

\* an external POST was observed and no destination is suspicious
C13_Witness ==
  /\ hasReport
  /\ report.behaviorVector.external_post
  /\ report.behaviorVector.suspicious_domains = {}
  /\ report.behaviorVector.data_exfiltration

\* C16: when nothing is stored under runtime_obs_{id}, or the read fails,
\* the analysis yields a report whose behaviour vector is the minimal-risk
\* one and whose runtime score is 0.
C16_MissingObservationsMinimal ==
  hasReport =>
    /\ runtimeObs = NoObservations =>
         /\ isMinimalRisk(report.behaviorVector)
         /\ report.breakdown.runtimeScore = 0
         /\ report.riskScore \in 0..100
    /\ isMinimalRisk(normalizeBehavior(getRuntimeObservationsFailed))
    /\ calculateRuntimeScore(normalizeBehavior(getRuntimeObservationsFailed),
                             staticAnalysisOf(extension, apiResult)) = 0

\* an extension without stored observations has been analysed
C16_Witness ==
  /\ hasReport
  /\ runtimeObs = NoObservations
  /\ report.breakdown.runtimeScore = 0
  /\ report.breakdown.staticScore > 0

\* C17: a report made without stored observations differs from the report
\* made for the same extension with observations stored and benign.
C17_DegradedMarked ==
  hasReport /\ runtimeObs = NoObservations =>
    report # correlateRisk(extension, apiResult, BenignObservations)

\* Scenario B: host permission <all_urls>, permissions {cookies, webRequest}
isScenarioB(ext) ==
  /\ ext.permissions = {"cookies", "webRequest"}
  /\ ext.extraPermissions = 0
  /\ ext.hostPermissions = {"<all_urls>"}

isScenarioA(ext) ==
  /\ ext.permissions = {}
  /\ ext.extraPermissions = 0
  /\ ext.hostPermissions = {}

\* C20: for Scenario A without observed behaviour, scored locally, the
\* riskLevel is LOW and the riskScore is at most 10 for every install type.
C20_ScenarioA ==
  hasReport /\ apiResult = ApiFailure /\ isScenarioA(extension) /\ noObservedBehavior =>
    /\ report.riskLevel = "LOW"
    /\ report.riskScore <= 10

\* ========================================================================
\* Claims about the manifest score
\* ========================================================================
\* the rule table of the README: item -> points
RuleTable ==
  [ webRequestBlocking |-> 30, debugger |-> 40, proxy |-> 25, cookies |-> 15,
    universalAccess |-> 25, unverifiedSource |-> 10,
    cookieTheft |-> 10, dataExfiltration |-> 10 ]

\* the items of the table that are present in a manifest
itemsPresent(ext) ==
  LET universal == ext.hostPermissions \cap UniversalPatterns # {}
  IN  (ext.permissions \cap {"webRequestBlocking", "debugger", "proxy", "cookies"})
      \cup (IF universal THEN {"universalAccess"} ELSE {})
      \cup (IF ext.installType # "normal" THEN {"unverifiedSource"} ELSE {})
      \cup (IF universal /\ "cookies" \in ext.permissions THEN {"cookieTheft"} ELSE {})
      \cup (IF universal /\ "webRequest" \in ext.permissions
              THEN {"dataExfiltration"} ELSE {})

RECURSIVE sumOfPoints(_)
sumOfPoints(items) ==
  IF items = {} THEN 0
  ELSE LET item == CHOOSE i \in items : TRUE
       IN  RuleTable[item] + sumOfPoints(items \ {item})

\* 5 points per 5 requested permissions above 10, at most 15
excessPoints(ext) ==
  LET n == Cardinality(ext.permissions) + ext.extraPermissions
             + Cardinality(ext.hostPermissions)
  IN  IF n >= 25 THEN 15 ELSE IF n >= 20 THEN 10 ELSE IF n >= 15 THEN 5 ELSE 0

\* C18: the score analyzeManifestStatic returns is the sum of the rule
\* points of the items present, capped at 100.
C18_ManifestScore ==
  hasReport =>
    /\ report.riskScore = Min(100, sumOfPoints(itemsPresent(extension)) + excessPoints(extension))
    /\ report.riskScore \in 0..100

\* a manifest whose points exceed 100 with the excess points at their cap
C18_Witness ==
  /\ hasReport
  /\ report.riskScore = 100
  /\ sumOfPoints(itemsPresent(extension)) < 100
  /\ excessPoints(extension) = 15
  /\ permissionsLength(extension) + Cardinality(extension.hostPermissions) >= 25

\* ========================================================================
\* Claims about runtime observation
\* ========================================================================
\* a match pattern of the manifest matches a URL
patternMatches(perm, url) ==
  /\ perm[1] = url[1] \/ (perm[1] = "*" /\ url[1] \in {"http", "https"})
  /\ perm[2] = "*" \/ perm[2] = url[2]

ObservationFlags == {"dom_injection", "form_hijacking", "keystroke_capture", "external_post"}

\* nothing recorded in old is missing from new
keepsRecorded(old, new) ==
  /\ \A f \in ObservationFlags : old[f] => new[f]
  /\ old.fetch_domains \subseteq new.fetch_domains
  /\ old.xhr_domains \subseteq new.xhr_domains

\* C11: a write to runtime_obs_{id} keeps every flag and domain the entry
\* held before, and is made only for an extension with a host permission
\* that matches the page the observations come from.
C11_SerializedIngestion ==
  [][ \A e \in ExtensionIds :
        obsStore'[e] # obsStore[e] =>
          /\ \E perm \in hostPerms[e] : patternMatches(perm, obsStore'[e].url)
          /\ obsStore[e] # NoObservations =>
               keepsRecorded(obsStore[e].observations, obsStore'[e].observations) ]_vars

\* ------------------------------------------------------------------------
\* Claims about the observation window of a page
\* ------------------------------------------------------------------------
\* frequency of a rate of events per second: above 1 high, above 0.5 medium
frequencyOfRate(events, seconds) ==
  IF events > seconds THEN "high"
  ELSE IF 2 * events > seconds THEN "medium"
  ELSE "low"

isDuplicateFree(s) == \A i, j \in 1..Len(s) : s[i] = s[j] => i = j

\* C12: an event type is recorded as true the first time it is seen: once
\* the page has sent a POST to another origin, external_post is true; and
\* every external domain is listed at most once over both lists.
C12_RecordedWhenSeen ==
  page.pc # "none" =>
    /\ page.postSeen => page.observations.external_post
    /\ isDuplicateFree(page.observations.fetch_domains \o page.observations.xhr_domains)

\* C14: the frequency of every saved vector is the number of observed
\* requests per second of the elapsed window, bucketed above 1 as high,
\* above 0.5 as medium and low otherwise.
C14_FrequencyIsEventRate ==
  (page.pc # "none" /\ page.sent # NoMessage /\ page.sent.elapsed > 0) =>
    page.sent.observations.frequency = frequencyOfRate(page.sent.requests, page.sent.elapsed)

\* C15: the vector is sent when the 30-second window closes and on page
\* unload, whichever comes first, whatever has been observed; once the
\* window is closed the check and save intervals are cleared and no further
\* periodic save is made.
C15_FinalFlush ==
  /\ page.pc = "closed" =>
       /\ page.finalSent
       /\ ~page.checking /\ ~page.saving
       /\ page.sent # NoMessage =>
            /\ page.now = ObservationWindow
            /\ page.sent.observations = page.observations
  /\ page.pc = "unloaded" =>
       /\ page.finalSent
       /\ page.sent # NoMessage
       /\ page.sent.observations = page.observations

\* the window has just closed on a page where nothing was observed, and the
\* empty vector has been sent
C15_Witness ==
  /\ page.pc = "closed"
  /\ page.sent # NoMessage
  /\ page.requests = 0
  /\ ~page.observations.dom_injection
  /\ ~page.observations.form_hijacking
  /\ ~page.observations.keystroke_capture
  /\ ~page.observations.external_post
  /\ page.observations.fetch_domains = <<>>
  /\ page.observations.xhr_domains = <<>>

\* ------------------------------------------------------------------------
\* Claims about the runtime score and the remote Analyzer
\* ------------------------------------------------------------------------
\* the points of the documentation's table "Runtime Analysis Scoring"
documentedRuntimePoints(behaviorVector) ==
    (IF behaviorVector.dom_injection THEN 20 ELSE 0)
  + (IF behaviorVector.keystroke_capture THEN 25 ELSE 0)
  + (IF behaviorVector.external_post THEN 30 ELSE 0)
  + Min(Cardinality(behaviorVector.suspicious_domains) * 15, 30)
  + (IF behaviorVector.frequency = "high" THEN 10 ELSE 0)

\* C21: the runtime score of every report is the sum of the documented
\* points of the flags present in its behaviour vector (DOM injection 20,
\* keystroke capture 25, external POST 30, 15 per suspicious domain up to
\* 30, high frequency 10), capped at 100.
C21_DocumentedRuntimeScore ==
  hasReport =>
    report.breakdown.runtimeScore = Min(documentedRuntimePoints(report.behaviorVector), 100)

\* the steps occur, in order and not necessarily next to each other, among
\* events that lie within one window
occursWithinWindow(steps, events) ==
  \E f \in [1..Len(steps) -> 1..Len(events)] :
    /\ \A k \in 1..Len(steps) - 1 : f[k] < f[k + 1]
    /\ \A k \in 1..Len(steps) : events[f[k]].kind = steps[k]
    /\ events[f[Len(steps)]].timestamp - events[f[1]].timestamp <= CorrelationWindow

\* Scenario D: KEYLOGGING at t=0 and DATA_EXFILTRATION at t=5
ScenarioD ==
  << [kind |-> "KEYLOGGING", timestamp |-> 0],
     [kind |-> "DATA_EXFILTRATION", timestamp |-> 5] >>

\* C22: for the timeline of Scenario D the engine emits exactly one attack
\* chain, Credential Harvesting, with confidence > 0 and riskBoost > 0; and
\* for every timeline a chain is emitted only if its steps occur in order,
\* not necessarily contiguously, within one window.
C22_CredentialHarvesting ==
  correlationReport # NoCorrelationReport =>
    /\ timeline = ScenarioD =>
         /\ Cardinality(correlationReport.attack_chains) = 1
         /\ \A chain \in correlationReport.attack_chains :
              /\ chain.name = "Credential Harvesting"
              /\ chain.confidence > 0
              /\ chain.riskBoost > 0
    /\ \A chain \in correlationReport.attack_chains :
         occursWithinWindow(chain.steps, timeline)

\* the engine has run over the timeline of Scenario D and emitted a chain
C22_Witness ==
  /\ timeline = ScenarioD
  /\ correlationReport # NoCorrelationReport
  /\ correlationReport.attack_chains # {}

\* ========================================================================
\* Claims about the scans (checked under SpecScan)
\* ========================================================================

\* the ids a step writes a scan result for: a new scan_result_{id} entry, or
\* an entry of the results of a lastScan written by the step
resultsWritten ==
  (scanResult' \ scanResult)
    \cup (IF scan.pc = "analyzing" /\ scan'.pc = "done" /\ scan'.response.success
            THEN lastScan'.results ELSE {})

\* C23: while blacklist_{id} is set no step writes a scan result for id,
\* neither scan_result_{id} nor an entry of lastScan.results.
C23_BlacklistedNeverScanned ==
  [][ \A e \in ExtensionIds :
        (e \in blacklist /\ e \in blacklist') => e \notin resultsWritten ]_vars

\* C24: while whitelist_{id} is set no step writes a scan result for id.
C24_WhitelistedSkipped ==
  [][ \A e \in ExtensionIds :
        (e \in whitelist /\ e \in whitelist') => e \notin resultsWritten ]_vars

\* C25: while autoScan is false, the only scans that analyse an extension
\* are the ones a user asked for.
C25_NoAutomaticScan ==
  [][ (autoScan = "false" /\ scan.pc = "idle" /\ scan'.pc = "analyzing"
         /\ scan'.extensionsToScan # {})
        => scan'.reason \notin AutomaticReasons ]_vars

\* C27: a scanAllExtensions that fails returns success = false with an empty
\* extension list and leaves lastScan as it was.
C27_FailedScanKeepsLastScan ==
  [][ (scan.pc # "done" /\ scan'.pc = "done" /\ ~scan'.response.success) =>
        /\ scan'.response.extensions = {}
        /\ lastScan' = lastScan ]_vars

\* a scan has failed in the analysis of its extensions after an earlier
\* scan had stored its results
C27_Witness ==
  /\ scan.pc = "done"
  /\ ~scan.response.success
  /\ scan.response.error = "analysis"
  /\ lastScan # NoLastScan
  /\ lastScan.results # {}

\* ========================================================================
\* Claims about the remote Analyzer (checked under SpecScore)
\* ========================================================================

\* C26: when the call to the remote Analyzer fails in any way, the report is
\* made from the local manifest analysis and is complete; and
\* breakdown.usingAnalyzerAPI is true exactly when the static score is the
\* remote one.
C26_FallbackToLocal ==
  hasReport =>
    /\ report.breakdown.usingAnalyzerAPI = apiResult.success
    /\ apiResult.success => report.breakdown.staticScore = apiResult.risk_score
    /\ ~apiResult.success =>
         /\ report.breakdown.staticScore = analyzeManifestStatic(extension).riskScore
         /\ report.flags = analyzeManifestStatic(extension).flags
         /\ report.riskScore \in 0..100
         /\ report.riskLevel \in {"LOW", "MEDIUM", "HIGH", "CRITICAL"}

\* the call has failed and the report carries a local static score
C26_Witness ==
  /\ hasReport
  /\ ~apiResult.success
  /\ ~report.breakdown.usingAnalyzerAPI
  /\ report.breakdown.staticScore > 0

\* ========================================================================
\* Further claims about the content script (checked under SpecObserver)
\* ========================================================================

\* C28: once the page has sent an XMLHttpRequest with method POST to another
\* origin, every vector saved afterwards has external_post true.
C28_PostInSavedVector ==
  (page.pc # "none" /\ page.sent # NoMessage /\ page.postSeen) =>
    page.sent.observations.external_post

\* ========================================================================
\* Claims about the popup
\* ========================================================================

\* C29: after a confirmed import the whitelist and blacklist keys are the
\* file's, lastScan holds exactly the imported results, and the
\* scan_result_{id} entries in storage are those of the imported results.
C29_ImportReplaces ==
  importData # NoImport =>
    /\ importData.whitelist # NoList => whitelist = importData.whitelist.ids
    /\ importData.blacklist # NoList => blacklist = importData.blacklist.ids
    /\ lastScan.reason = "imported"
    /\ lastScan.results = importData.scanResults
    /\ scanResult = importData.scanResults

\* C30: every call of applyFiltersUnscanned or filterUnscannedExtensionsByTab
\* completes: the chain of calls it starts comes to an end.
C30_FiltersTerminate ==
  (view.pc \in {"applyFilters", "filterByTab", "filterByTabCount"}) ~> (view.pc = "idle")

====
